---- MODULE Spec2Model ----
(***************************************************************************)
(* A model of go-pong: the frame loop of main, the Game state machine and  *)
(* its physics, the particle pool, the text renderer and the draw          *)
(* sequence.                                                               *)
(*                                                                         *)
(* Number representation.  The program computes in float32/float64; the   *)
(* model uses exact fixed-point integers:                                  *)
(*   time      in centiseconds           (1.0 s   = 100)                   *)
(*   lengths   in thousandths of a pixel (1.0 px  = 1000)                  *)
(*   colours   in thousandths            (1.0     = 1000)                  *)
(*   velocity  in pixels per second, as in the source                      *)
(* so that velocity * deltaTime is the integer  v * dt * 10.               *)
(***************************************************************************)
EXTENDS Integers, Sequences, FiniteSets, TLC

VARIABLES
    pc,               \* position of main's frame loop
    deltaTime,        \* main: frame delta of the current frame
    shouldClose,      \* the window's should-close flag
    state,            \* Game.state
    keys,             \* Game.keys: the set of keys mapped to true
    processedKeys,    \* Game.processedKeys: the set of indices set to true
    paddle1, paddle2, \* Game.paddle1, Game.paddle2 (GameObject)
    ball,             \* Game.ball (BallObject)
    paddle1Score, paddle2Score,
    shakeTime,        \* package variable shakeTime
    shake,            \* Game.effects.shake
    amount,           \* ParticleGenerator.amount
    particles,        \* ParticleGenerator.particles, indexed 0..amount-1
    lastUsedParticle, \* package variable lastUsedParticle
    chars,            \* TextRenderer.chars
    calls,            \* the graphics calls issued by the current frame's Draw
    enterUsed,        \* history: the current press of Enter caused a transition
    newParticles,     \* ParticleGenerator.Update: its newParticles argument
    spawnI,           \* ParticleGenerator.Update: the spawn loop's counter i
    freeAtStart,      \* history: no particle was alive when Update was called
    liveAtSpawn,      \* history: the particles alive before the last spawn
    otherBox,         \* CheckCollision's argument other
    textIn, scaleIn, penIn, \* RenderText's arguments text, scale and x
    result,           \* the value the last call returned
    sinceHit,         \* history: the frame deltas since the last collision
    shaders,          \* ResourceManager.shaders: name -> Shader
    fontFile,         \* the file LoadFont is given
    fontData,         \* LoadFont: data, the bytes ReadAll returned
    ttf,              \* LoadFont: ttf, the parsed font or nil
    errors            \* the errors LoadFont has printed

vars == <<pc, deltaTime, shouldClose, state, keys, processedKeys, paddle1,
          paddle2, ball, paddle1Score, paddle2Score, shakeTime, shake,
          amount, particles, lastUsedParticle, chars, calls, enterUsed, newParticles,
          spawnI, freeAtStart, liveAtSpawn, otherBox, textIn, scaleIn, penIn,
          result, sinceHit, shaders, fontFile, fontData, ttf, errors>>

----------------------------------------------------------------------------
(* Units *)

Px(n) == n * 1000               \* n pixels
Sec(n) == n * 100               \* n seconds
Tenths(n) == n * 10             \* n tenths of a second
Displacement(v, dt) == v * dt * 10   \* v px/s over dt centiseconds

Add(a, b) == <<a[1] + b[1], a[2] + b[2]>>
Sub(a, b) == <<a[1] - b[1], a[2] - b[2]>>
Neg(v) == <<-v[1], -v[2]>>
Min(a, b) == IF a <= b THEN a ELSE b

----------------------------------------------------------------------------
(* Configuration *)

windowWidth == 800
windowHeight == 600
maxScore == 10
paddleVelocity == 500
paddleSize == <<Px(20), Px(100)>>
initialBallVelocity == <<450, 300>>
ballRadius == Px(10)

gameActive == "gameActive"
gameMenu == "gameMenu"
gameWin == "gameWin"

KeyEnter == "KeyEnter"
KeyW == "KeyW"
KeyS == "KeyS"
KeyUp == "KeyUp"
KeyDown == "KeyDown"
KeyEscape == "KeyEscape"
\* The keys the players press during a game.
Keys == {KeyEnter, KeyW, KeyS, KeyUp, KeyDown}
KeyActions == {"Press", "Release", "Repeat"}

\* The frame deltas the environment produces, in centiseconds.
DeltaTimes == {42}
\* The keys held down at the same time: one key or none.
HeldKeys == {{}} \cup {{k} : k \in Keys}
\* The size of the game's particle pool (Game.Init asks for 50).
PoolSize == 2
\* The largest particle pool of the pool's own specification.
MaxPool == 3
\* The pairs (random, randomColor) drawn from rand.Int31n(50) by a respawn.
Int31n50 == {<<0, 49>>}

----------------------------------------------------------------------------
(* GameObject and BallObject *)

newGameObject(position, size) ==
    [position |-> position, size |-> size, velocity |-> <<0, 0>>]

newBallObject(position, radius, velocity) ==
    [position |-> position, size |-> <<radius * 2, radius * 2>>,
     velocity |-> velocity, isStuck |-> FALSE, radius |-> radius]

GameObjectReset(o, position) == [o EXCEPT !.position = position]

\* A mutant of CheckCollision: only one side of each axis is tested.
CheckCollisionOneSided(o, other) ==
    /\ o.position[1] + o.size[1] >= other.position[1]
    /\ o.position[2] + o.size[2] >= other.position[2]

CheckCollision(o, other) ==
    LET collisionX == /\ o.position[1] + o.size[1] >= other.position[1]
                      /\ other.position[1] + other.size[1] >= o.position[1]
        collisionY == /\ o.position[2] + o.size[2] >= other.position[2]
                      /\ other.position[2] + other.size[2] >= o.position[2]
    IN  collisionX /\ collisionY

\* A mutant of Move: the ball is clamped at a wall but keeps its velocity.
MoveNoFlip(b, dt, width, height) ==
    IF b.isStuck THEN b
    ELSE LET p == <<b.position[1] + Displacement(b.velocity[1], dt),
                    b.position[2] + Displacement(b.velocity[2], dt)>>
         IN  IF p[2] <= 0
             THEN [b EXCEPT !.position = <<p[1], 0>>]
             ELSE IF p[2] + b.size[2] >= Px(height)
             THEN [b EXCEPT !.position = <<p[1], Px(height) - b.size[2]>>]
             ELSE [b EXCEPT !.position = p]

Move(b, dt, width, height) ==
    IF b.isStuck THEN b
    ELSE LET p == <<b.position[1] + Displacement(b.velocity[1], dt),
                    b.position[2] + Displacement(b.velocity[2], dt)>>
         IN  IF p[2] <= 0
             THEN [b EXCEPT !.position = <<p[1], 0>>,
                            !.velocity = <<b.velocity[1], -b.velocity[2]>>]
             ELSE IF p[2] + b.size[2] >= Px(height)
             THEN [b EXCEPT !.position = <<p[1], Px(height) - b.size[2]>>,
                            !.velocity = <<b.velocity[1], -b.velocity[2]>>]
             ELSE [b EXCEPT !.position = p]

BallReset(b, position, velocity) ==
    [b EXCEPT !.position = position, !.velocity = velocity]

----------------------------------------------------------------------------
(* Particle and ParticleGenerator *)

newParticle(position, velocity, color, life) ==
    [position |-> position, velocity |-> velocity, color |-> color,
     life |-> life]

\* The pool built by ParticleGenerator.Init: n default particles.
InitParticles(n) ==
    [i \in 0 .. n - 1 |->
        newParticle(<<0, 0>>, <<0, 0>>, <<1000, 1000, 1000, 1000>>, 0)]

MinOf(S) == CHOOSE m \in S : \A n \in S : m <= n

\* A mutant of firstUnusedParticle: a particle is free when its life is
\* below zero.
firstUnusedParticleStrict(ps, last) ==
    LET first == {i \in last .. amount - 1 : ps[i].life < 0}
        second == {i \in 0 .. last - 1 : ps[i].life < 0}
    IN  IF first # {} THEN MinOf(first)
        ELSE IF second # {} THEN MinOf(second)
        ELSE 0

\* A mutant of firstUnusedParticle: a full pool overwrites the particle
\* under the cursor.
firstUnusedParticleKeepCursor(ps, last) ==
    LET first == {i \in last .. amount - 1 : ps[i].life <= 0}
        second == {i \in 0 .. last - 1 : ps[i].life <= 0}
    IN  IF first # {} THEN MinOf(first)
        ELSE IF second # {} THEN MinOf(second)
        ELSE last

\* A mutant of firstUnusedParticle: a full pool overwrites its oldest
\* particle, the first one of minimal remaining life.
firstUnusedParticleOldest(ps, last) ==
    LET first == {i \in last .. amount - 1 : ps[i].life <= 0}
        second == {i \in 0 .. last - 1 : ps[i].life <= 0}
        oldest == {i \in 0 .. amount - 1 :
                      \A j \in 0 .. amount - 1 : ps[i].life <= ps[j].life}
    IN  IF first # {} THEN MinOf(first)
        ELSE IF second # {} THEN MinOf(second)
        ELSE MinOf(oldest)

\* The index firstUnusedParticle returns; it also stores it in the cursor.
firstUnusedParticle(ps, last) ==
    LET first == {i \in last .. amount - 1 : ps[i].life <= 0}
        second == {i \in 0 .. last - 1 : ps[i].life <= 0}
    IN  IF first # {} THEN MinOf(first)
        ELSE IF second # {} THEN MinOf(second)
        ELSE 0

\* random, randomColor: the two values drawn from rand.Int31n(50).
\* random/100/10 px is random thousandths of a pixel; randomColor/100 is
\* randomColor * 10 thousandths; velocity is a tenth of the object's.
respawnParticle(particle, object, offset, random, randomColor) ==
    [particle EXCEPT
        !.position = Add(Add(object.position, <<random, random>>), offset),
        !.color = <<randomColor * 10, randomColor * 10, randomColor * 10, 1000>>,
        !.life = Sec(1),
        !.velocity = <<object.velocity[1] \div 10, object.velocity[2] \div 10>>]

\* One iteration of Update's spawn loop on pg = [particles, lastUsedParticle].
SpawnParticle(pg, object, offset, rnd) ==
    LET unusedParticle == firstUnusedParticle(pg.particles, pg.lastUsedParticle)
    IN  [particles |->
            [pg.particles EXCEPT ![unusedParticle] =
                respawnParticle(pg.particles[unusedParticle], object, offset,
                                rnd[1], rnd[2])],
         lastUsedParticle |-> unusedParticle]

\* A mutant of AgeParticle: a particle that is dead before the step is left
\* as it is.
AgeParticleLiveOnly(p, dt) ==
    LET life == p.life - dt
    IN  IF p.life <= 0 THEN p
        ELSE IF life > 0
        THEN [p EXCEPT !.life = life,
                       !.position = <<p.position[1] - Displacement(p.velocity[1], dt),
                                      p.position[2] - Displacement(p.velocity[2], dt)>>,
                       !.color = <<p.color[1], p.color[2], p.color[3],
                                   p.color[4] - 25 * dt>>]
        ELSE [p EXCEPT !.life = life]

\* The body of Update's second loop for one particle.
AgeParticle(p, dt) ==
    LET life == p.life - dt
    IN  IF life > 0
        THEN [p EXCEPT !.life = life,
                       !.position = <<p.position[1] - Displacement(p.velocity[1], dt),
                                      p.position[2] - Displacement(p.velocity[2], dt)>>,
                       !.color = <<p.color[1], p.color[2], p.color[3],
                                   p.color[4] - 25 * dt>>]
        ELSE [p EXCEPT !.life = life]

AgeParticles(ps, dt) == [i \in 0 .. amount - 1 |-> AgeParticle(ps[i], dt)]

RECURSIVE SpawnParticles(_, _, _, _)
SpawnParticles(pg, object, offset, rnds) ==
    IF rnds = <<>> THEN pg
    ELSE SpawnParticles(SpawnParticle(pg, object, offset, Head(rnds)),
                        object, offset, Tail(rnds))

\* ParticleGenerator.Update with newParticles = Len(rnds).
ParticlesUpdate(pg, dt, object, rnds, offset) ==
    LET spawned == SpawnParticles(pg, object, offset, rnds)
    IN  [particles |-> AgeParticles(spawned.particles, dt),
         lastUsedParticle |-> spawned.lastUsedParticle]

----------------------------------------------------------------------------
(* TextRenderer *)

lowChar == 32
highChar == 127
Runes == lowChar .. highChar

Shr6(n) == n \div 64     \* n >> 6 (arithmetic: rounds toward minus infinity)

\* The font file's glyph metrics in 26.6 fixed point, as freetype reports
\* them: two fonts, one with whole-pixel advances and one without.
Fonts == {"whole", "fractional"}
GlyphBounds(font, ch) ==
    IF ch = 32 THEN [minX |-> 0, minY |-> 0, maxX |-> 0, maxY |-> 0]
    ELSE [minX |-> 64 * (ch % 3), minY |-> -64 * (20 + (ch % 5)),
          maxX |-> 64 * (14 + (ch % 7)), maxY |-> 64 * (ch % 2) * 6]
GlyphAdvance(font, ch) ==
    IF font = "whole" THEN 64 * (12 + (ch % 11))
    ELSE 64 * (12 + (ch % 11)) + 8 * (1 + (ch % 7))
FontBounds(font, fontSize) ==
    [minX |-> -64, minY |-> -64 * 44, maxX |-> 64 * 52, maxY |-> 64 * 12]

\* The Character LoadFont builds for rune ch, the n-th glyph it makes.
MakeGlyph(font, fontSize, ch) ==
    LET g == GlyphBounds(font, ch)
        empty == Shr6(g.maxX - g.minX) = 0 \/ Shr6(g.maxY - g.minY) = 0
        gBnd == IF empty THEN FontBounds(font, fontSize) ELSE g
    IN  [textureID |-> ch - lowChar + 1,
         width |-> Shr6(gBnd.maxX - gBnd.minX),
         height |-> Shr6(gBnd.maxY - gBnd.minY),
         advance |-> GlyphAdvance(font, ch),
         bearingH |-> Shr6(gBnd.minX),
         bearingV |-> Shr6(gBnd.maxY)]

LoadFont(font, fontSize) ==
    [i \in 0 .. highChar - lowChar |-> MakeGlyph(font, fontSize, lowChar + i)]

RECURSIVE Itoa(_)
Itoa(n) == IF n < 10 THEN <<48 + n>> ELSE Itoa(n \div 10) \o <<48 + (n % 10)>>

\* A mutant of SprintfScore: the format is "%v\t:\t%v", with tabs for the
\* spaces.
SprintfScoreTabs(a, b) == Itoa(a) \o <<9, 58, 9>> \o Itoa(b)
\* fmt.Sprintf("%v : %v", a, b)
SprintfScore(a, b) == Itoa(a) \o <<32, 58, 32>> \o Itoa(b)
\* "Press ENTER to start"
startText == <<80, 114, 101, 115, 115, 32, 69, 78, 84, 69, 82, 32, 116, 111,
               32, 115, 116, 97, 114, 116>>
\* "Player 1 Won!", "Player 2 Won!"
player1Won == <<80, 108, 97, 121, 101, 114, 32, 49, 32, 87, 111, 110, 33>>
player2Won == <<80, 108, 97, 121, 101, 114, 32, 50, 32, 87, 111, 110, 33>>

\* A mutant of RenderText: runes without a glyph image are skipped.
RECURSIVE RenderTextSkipBlank(_, _, _, _, _)
RenderTextSkipBlank(cs, x, y, scale, text) ==
    IF text = <<>> THEN <<>>
    ELSE LET char == Head(text)
             charRune == cs[char - lowChar]
             next == x + Shr6(charRune.advance) * scale
         IN  (IF char = 32 THEN <<>>
              ELSE <<[op |-> "DrawArrays", texture |-> charRune.textureID,
                      xPos |-> x + charRune.bearingH * scale,
                      yPos |-> y - (charRune.height - charRune.bearingV) * scale,
                      w |-> charRune.width * scale,
                      h |-> charRune.height * scale,
                      pen |-> next]>>)
             \o RenderTextSkipBlank(cs, next, y, scale, Tail(text))

\* The draws RenderText issues for the runes `text` with the pen at x:
\* one record per DrawArrays call, with the quad, the glyph's texture and
\* the pen position after the advance.  scale is in thousandths.
RECURSIVE RenderText(_, _, _, _, _)
RenderText(cs, x, y, scale, text) ==
    IF text = <<>> THEN <<>>
    ELSE LET char == Head(text)
             charRune == cs[char - lowChar]
             xPos == x + charRune.bearingH * scale
             yPos == y - (charRune.height - charRune.bearingV) * scale
             w == charRune.width * scale
             h == charRune.height * scale
             next == x + Shr6(charRune.advance) * scale
         IN  <<[op |-> "DrawArrays", texture |-> charRune.textureID,
                xPos |-> xPos, yPos |-> yPos, w |-> w, h |-> h,
                pen |-> next]>>
             \o RenderText(cs, next, y, scale, Tail(text))

----------------------------------------------------------------------------
(* Game *)

centre == <<Px(windowWidth \div 2), Px(windowHeight \div 2)>>
paddle1Start == <<Px(10), Px(windowHeight \div 2) - paddleSize[2] \div 2>>
paddle2Start == <<Px(windowWidth) - paddleSize[1] - Px(10),
                  Px(windowHeight \div 2) - paddleSize[2] \div 2>>

\* Where Game.Init puts the ball.
ballStart == <<Px(windowWidth \div 2) - Px(10), Px(windowHeight \div 2) - Px(10)>>

\* The shader programs Game.Init loads, in its order.
ShaderNames == <<"sprite", "particle", "postprocessing", "text">>

\* What a startup without failures leaves: the four programs compiled and
\* linked, the font file `font` read and parsed, nothing printed, and no
\* collision yet.
StartedUp(font) ==
    /\ shaders = [n \in {ShaderNames[i] : i \in 1 .. Len(ShaderNames)} |->
                     [compiled |-> TRUE, linked |-> TRUE]]
    /\ fontFile = [content |-> font]
    /\ fontData = "whole"
    /\ ttf = font
    /\ errors = <<>>
    /\ sinceHit = Tenths(1)

\* newGame followed by Game.Init, with the font file `font` and a particle
\* pool of n particles.
GameInit(font, n) ==
    /\ state = gameMenu
    /\ keys = {}
    /\ processedKeys = {}
    /\ paddle1Score = 0
    /\ paddle2Score = 0
    /\ amount = n
    /\ particles = InitParticles(n)
    /\ lastUsedParticle = 0
    /\ shake = FALSE
    /\ shakeTime = 0
    /\ chars = LoadFont(font, 48)
    /\ paddle1 = newGameObject(paddle1Start, paddleSize)
    /\ paddle2 = newGameObject(paddle2Start, paddleSize)
    /\ ball = newBallObject(ballStart, ballRadius, initialBallVelocity)

\* A mutant of MovePaddle: the keys move the paddle wherever it is.
MovePaddleUnguarded(paddle, up, down, deltaSpace) ==
    LET y0 == paddle.position[2]
        y1 == IF up THEN y0 - deltaSpace ELSE y0
        y2 == IF down THEN y1 + deltaSpace ELSE y1
    IN  [paddle EXCEPT !.position = <<paddle.position[1], y2>>]

\* The paddle after the two directional tests of ProcessInput, in the
\* source's order: the second test reads the position the first one left.
MovePaddle(paddle, up, down, deltaSpace) ==
    LET y0 == paddle.position[2]
        y1 == IF up /\ y0 >= 0 THEN y0 - deltaSpace ELSE y0
        y2 == IF down /\ y1 <= Px(windowHeight) - paddle.size[2]
              THEN y1 + deltaSpace ELSE y1
    IN  [paddle EXCEPT !.position = <<paddle.position[1], y2>>]

\* What DoCollisions does to the ball; the shake is set by the caller.
Collides(b, p1, p2) == CheckCollision(b, p1) \/ CheckCollision(b, p2)
DoCollisions(b, p1, p2) ==
    IF Collides(b, p1, p2)
    THEN [b EXCEPT !.velocity = <<-b.velocity[1], b.velocity[2]>>]
    ELSE b

\* A mutant of CheckLoss: the ball is served with the initial velocity on
\* both sides.
CheckLossSameServe(b, s1, s2) ==
    IF b.position[1] <= 0
    THEN <<BallReset(b, centre, initialBallVelocity), s1, s2 + 1>>
    ELSE IF b.position[1] + b.size[1] >= Px(windowWidth)
    THEN <<BallReset(b, centre, initialBallVelocity), s1 + 1, s2>>
    ELSE <<b, s1, s2>>

\* The score check of Update on the ball b: <<ball, score1, score2>>.
CheckLoss(b, s1, s2) ==
    IF b.position[1] <= 0
    THEN <<BallReset(b, centre, Neg(initialBallVelocity)), s1, s2 + 1>>
    ELSE IF b.position[1] + b.size[1] >= Px(windowWidth)
    THEN <<BallReset(b, centre, initialBallVelocity), s1 + 1, s2>>
    ELSE <<b, s1, s2>>

\* A mutant of CheckWin: the end of a game returns straight to the menu.
CheckWinToMenu(st, s1, s2) ==
    IF s1 >= maxScore \/ s2 >= maxScore THEN gameMenu ELSE st

\* A mutant of CheckWin: the threshold has to be exceeded.
CheckWinStrict(st, s1, s2) ==
    IF s1 > maxScore \/ s2 > maxScore THEN gameWin ELSE st

\* The state Update leaves, given the scores it just computed.
CheckWin(st, s1, s2) ==
    IF s1 >= maxScore \/ s2 >= maxScore THEN gameWin ELSE st

\* Game.Reset
Reset ==
    /\ paddle1Score' = 0
    /\ paddle2Score' = 0
    /\ paddle1' = GameObjectReset(paddle1, paddle1Start)
    /\ paddle2' = GameObjectReset(paddle2, paddle2Start)
    /\ ball' = BallReset(ball, centre, initialBallVelocity)

\* The calls of Game.Draw, in the order it issues them.
SpriteDraw(o) == [op |-> "SpriteDraw", position |-> o.position, size |-> o.size]
SceneCalls ==
    << [op |-> "BeginRender"],
       SpriteDraw(paddle1),
       SpriteDraw(paddle2),
       [op |-> "ParticlesDraw",
        n |-> Cardinality({i \in 0 .. amount - 1 : particles[i].life > 0})],
       SpriteDraw(ball),
       [op |-> "EndRender"],
       [op |-> "Render", shake |-> shake] >>
ScoreCalls ==
    RenderText(chars, Px(windowWidth \div 2) - Px(50), Px(50), 1000,
               SprintfScore(paddle1Score, paddle2Score))
PromptCalls ==
    RenderText(chars, Px(290), Px(windowHeight \div 2) - Px(20), 500, startText)
\* A mutant of winText: the comparison of the scores is turned around.
winTextSwapped == IF paddle1Score < paddle2Score THEN player1Won ELSE player2Won
winText == IF paddle1Score > paddle2Score THEN player1Won ELSE player2Won
WinCalls ==
    RenderText(chars, Px(330), Px(windowHeight \div 2) - Px(50), 500, winText)
\* A mutant of DrawCalls: the scene is drawn only while a game is played.
DrawCallsActiveOnly ==
    (IF state = gameActive THEN SceneCalls \o ScoreCalls ELSE <<>>)
    \o (IF state \in {gameMenu, gameWin} THEN PromptCalls ELSE <<>>)
    \o (IF state = gameWin THEN WinCalls ELSE <<>>)

\* The strings Game.Draw passes to RenderText, in its order.
DrawTexts ==
    (IF state \in {gameActive, gameMenu, gameWin}
     THEN <<SprintfScore(paddle1Score, paddle2Score)>> ELSE <<>>)
    \o (IF state \in {gameMenu, gameWin} THEN <<startText>> ELSE <<>>)
    \o (IF state = gameWin THEN <<winText>> ELSE <<>>)

DrawCalls ==
    (IF state \in {gameActive, gameMenu, gameWin}
     THEN SceneCalls \o ScoreCalls ELSE <<>>)
    \o (IF state \in {gameMenu, gameWin} THEN PromptCalls ELSE <<>>)
    \o (IF state = gameWin THEN WinCalls ELSE <<>>)

----------------------------------------------------------------------------
(* The frame loop of main: poll events, ProcessInput, Update, Draw *)

\* The variables of the other specifications, which the frame loop leaves.
poolVars == <<amount, newParticles, spawnI, freeAtStart, liveAtSpawn>>
frameVars == <<pc, deltaTime, calls>>
callVars == <<otherBox, textIn, scaleIn, penIn, result>>
startVars == <<shaders, fontFile, fontData, ttf, errors>>
gameVars == <<shouldClose, state, keys, processedKeys, paddle1, paddle2,
              paddle1Score, paddle2Score, shakeTime, shake, enterUsed>>
Idle ==
    /\ newParticles = 0
    /\ spawnI = 0
    /\ freeAtStart = FALSE
    /\ liveAtSpawn = 0
    /\ otherBox = newGameObject(<<0, 0>>, <<0, 0>>)
    /\ textIn = <<>>
    /\ scaleIn = 0
    /\ penIn = 0
    /\ result = <<>>

Init ==
    /\ pc = "poll"
    /\ deltaTime = 0
    /\ shouldClose = FALSE
    /\ enterUsed = FALSE
    /\ calls = <<>>
    /\ GameInit("whole", PoolSize)
    /\ StartedUp("whole")
    /\ Idle

\* A key event delivered by PollEvents.  A key goes down before it repeats
\* or goes up, and the keys held down are one of HeldKeys.
KeyCallback(key, action) ==
    /\ pc = "poll"
    /\ action = "Press" => key \notin keys /\ keys \cup {key} \in HeldKeys
    /\ action # "Press" => key \in keys
    /\ shouldClose' = (shouldClose \/ (key = KeyEscape /\ action = "Press"))
    /\ keys' = CASE action = "Press" -> keys \cup {key}
                 [] action = "Release" -> keys \ {key}
                 [] OTHER -> keys
    /\ enterUsed' = IF key = KeyEnter /\ action = "Release" THEN FALSE ELSE enterUsed
    /\ UNCHANGED <<pc, deltaTime, state, processedKeys, paddle1, paddle2, ball,
                   paddle1Score, paddle2Score, shakeTime, shake, particles,
                   lastUsedParticle, chars, calls, poolVars, callVars>>
    /\ UNCHANGED <<sinceHit, startVars>>

\* The frame's delta is dt; Game.ProcessInput(deltaTime).
ProcessInput(dt) ==
    /\ pc = "poll"
    /\ pc' = "update"
    /\ deltaTime' = dt
    /\ calls' = <<>>
    /\ CASE state = gameMenu /\ KeyEnter \in keys ->
              /\ Reset
              /\ state' = gameActive
              /\ processedKeys' = processedKeys \cup {KeyEnter}
              /\ enterUsed' = TRUE
         [] state = gameWin /\ KeyEnter \in keys ->
              /\ state' = gameMenu
              /\ processedKeys' = processedKeys \cup {KeyEnter}
              /\ enterUsed' = TRUE
              /\ UNCHANGED <<paddle1, paddle2, ball, paddle1Score, paddle2Score>>
         [] state = gameActive ->
              /\ paddle1' = MovePaddle(paddle1, KeyW \in keys, KeyS \in keys,
                                       Displacement(paddleVelocity, dt))
              /\ paddle2' = MovePaddle(paddle2, KeyUp \in keys, KeyDown \in keys,
                                       Displacement(paddleVelocity, dt))
              /\ UNCHANGED <<state, processedKeys, enterUsed, ball,
                             paddle1Score, paddle2Score>>
         [] OTHER ->
              UNCHANGED <<state, processedKeys, enterUsed, paddle1, paddle2,
                          ball, paddle1Score, paddle2Score>>
    /\ UNCHANGED <<shouldClose, keys, shakeTime, shake, particles,
                   lastUsedParticle, chars, poolVars, callVars>>
    /\ UNCHANGED <<sinceHit, startVars>>

\* A mutant of Update: the simulation runs in every game state.
UpdateInAnyState(random, randomColor) ==
    /\ pc = "update"
    /\ pc' = "draw"
    /\ IF TRUE
       THEN LET moved == Move(ball, deltaTime, windowWidth, windowHeight)
                hit == Collides(moved, paddle1, paddle2)
                bounced == DoCollisions(moved, paddle1, paddle2)
                pg == ParticlesUpdate(
                          [particles |-> particles,
                           lastUsedParticle |-> lastUsedParticle],
                          deltaTime, bounced, << <<random, randomColor>> >>,
                          <<bounced.radius, bounced.radius>>)
                time0 == IF hit THEN Tenths(1) ELSE shakeTime
                shake0 == hit \/ shake
                time1 == IF time0 > 0 THEN time0 - deltaTime ELSE time0
                loss == CheckLoss(bounced, paddle1Score, paddle2Score)
            IN  /\ particles' = pg.particles
                /\ lastUsedParticle' = pg.lastUsedParticle
                /\ shakeTime' = time1
                /\ shake' = IF time0 > 0 /\ time1 <= 0 THEN FALSE ELSE shake0
                /\ ball' = loss[1]
                /\ paddle1Score' = loss[2]
                /\ paddle2Score' = loss[3]
                /\ state' = CheckWin(state, loss[2], loss[3])
       ELSE UNCHANGED <<state, ball, paddle1Score, paddle2Score, shakeTime,
                        shake, particles, lastUsedParticle>>
    /\ UNCHANGED <<deltaTime, shouldClose, keys, processedKeys, enterUsed,
                   paddle1, paddle2, chars, calls, poolVars, callVars>>
    /\ sinceHit' =
           IF /\ TRUE
              /\ Collides(Move(ball, deltaTime, windowWidth, windowHeight),
                          paddle1, paddle2)
           THEN Min(deltaTime, Tenths(1))
           ELSE Min(sinceHit + deltaTime, Tenths(1))
    /\ UNCHANGED startVars

\* Game.Update(deltaTime); random, randomColor are this frame's draws.
Update(random, randomColor) ==
    /\ pc = "update"
    /\ pc' = "draw"
    /\ IF state = gameActive
       THEN LET moved == Move(ball, deltaTime, windowWidth, windowHeight)
                hit == Collides(moved, paddle1, paddle2)
                bounced == DoCollisions(moved, paddle1, paddle2)
                pg == ParticlesUpdate(
                          [particles |-> particles,
                           lastUsedParticle |-> lastUsedParticle],
                          deltaTime, bounced, << <<random, randomColor>> >>,
                          <<bounced.radius, bounced.radius>>)
                time0 == IF hit THEN Tenths(1) ELSE shakeTime
                shake0 == hit \/ shake
                time1 == IF time0 > 0 THEN time0 - deltaTime ELSE time0
                loss == CheckLoss(bounced, paddle1Score, paddle2Score)
            IN  /\ particles' = pg.particles
                /\ lastUsedParticle' = pg.lastUsedParticle
                /\ shakeTime' = time1
                /\ shake' = IF time0 > 0 /\ time1 <= 0 THEN FALSE ELSE shake0
                /\ ball' = loss[1]
                /\ paddle1Score' = loss[2]
                /\ paddle2Score' = loss[3]
                /\ state' = CheckWin(state, loss[2], loss[3])
       ELSE UNCHANGED <<state, ball, paddle1Score, paddle2Score, shakeTime,
                        shake, particles, lastUsedParticle>>
    /\ UNCHANGED <<deltaTime, shouldClose, keys, processedKeys, enterUsed,
                   paddle1, paddle2, chars, calls, poolVars, callVars>>
    /\ sinceHit' =
           IF /\ state = gameActive
              /\ Collides(Move(ball, deltaTime, windowWidth, windowHeight),
                          paddle1, paddle2)
           THEN Min(deltaTime, Tenths(1))
           ELSE Min(sinceHit + deltaTime, Tenths(1))
    /\ UNCHANGED startVars

\* Game.Draw, then SwapBuffers and the loop's test of the close flag.
Draw ==
    /\ pc = "draw"
    /\ pc' = IF shouldClose THEN "closed" ELSE "poll"
    /\ calls' = DrawCalls
    /\ UNCHANGED <<deltaTime, shouldClose, state, keys, processedKeys,
                   enterUsed, paddle1, paddle2, ball, paddle1Score,
                   paddle2Score, shakeTime, shake, particles,
                   lastUsedParticle, chars, poolVars, callVars>>
    /\ UNCHANGED <<sinceHit, startVars>>

Next ==
    \/ \E key \in Keys, action \in KeyActions : KeyCallback(key, action)
    \/ \E dt \in DeltaTimes : ProcessInput(dt)
    \/ \E draw \in Int31n50 : Update(draw[1], draw[2])
    \/ Draw

Spec == Init /\ [][Next]_vars

(* The frame loop with frames shorter than the shake: 0.09 s a frame, the *)
(* left player moving up and the right player moving down.                *)
ShakeKeys == {KeyEnter, KeyW, KeyDown}
ShakeDeltas == {9}
NextShake ==
    \/ \E key \in ShakeKeys, action \in KeyActions : KeyCallback(key, action)
    \/ \E dt \in ShakeDeltas : ProcessInput(dt)
    \/ \E draw \in Int31n50 : Update(draw[1], draw[2])
    \/ Draw
SpecShake == Init /\ [][NextShake]_vars

(* The frame loop with a ball that takes two frames to cross a paddle:    *)
(* 0.06 s a frame, the right player moving down.                          *)
ContactKeys == {KeyEnter, KeyDown}
ContactDeltas == {6}
NextContact ==
    \/ \E key \in ContactKeys, action \in KeyActions : KeyCallback(key, action)
    \/ \E dt \in ContactDeltas : ProcessInput(dt)
    \/ \E draw \in Int31n50 : Update(draw[1], draw[2])
    \/ Draw
SpecContact == Init /\ [][NextContact]_vars

----------------------------------------------------------------------------
(* Claims about the Game state machine, checked under Spec *)

\* A step of ProcessInput that changes the game state: a confirm.
Confirm == pc = "poll" /\ pc' = "update" /\ state' # state

C1_Step ==
    state' # state =>
        \/ /\ state = gameMenu /\ state' = gameActive
           /\ pc = "poll" /\ pc' = "update" /\ KeyEnter \in keys
        \/ /\ state = gameActive /\ state' = gameWin
           /\ pc = "update" /\ pc' = "draw"
        \/ /\ state = gameWin /\ state' = gameMenu
           /\ pc = "poll" /\ pc' = "update" /\ KeyEnter \in keys
\* C1: the game starts in Menu and the only state changes that ever occur
\* are Menu->Active (ProcessInput, on confirm), Active->Win (Update) and
\* Win->Menu (ProcessInput, on confirm).
C1_OnlyThreeTransitions == (state = gameMenu) /\ [][C1_Step]_vars
\* A game was won and the confirm brought the menu back.
C1_Witness ==
    /\ state = gameMenu
    /\ pc = "update"
    /\ paddle1Score >= maxScore \/ paddle2Score >= maxScore

\* C2: one press of Enter causes at most one state transition: no confirm
\* happens on a press that has already caused one.
C2_ConfirmIsAnEdge == [][Confirm => ~enterUsed]_vars

C3_Step ==
    /\ (\/ paddle1Score' # paddle1Score /\ paddle1Score' >= maxScore
        \/ paddle2Score' # paddle2Score /\ paddle2Score' >= maxScore)
           => pc = "update" /\ state' = gameWin
    /\ (state # gameWin /\ state' = gameWin) =>
           /\ state = gameActive /\ pc = "update"
           /\ paddle1Score < maxScore /\ paddle2Score < maxScore
           /\ paddle1Score' + paddle2Score' = paddle1Score + paddle2Score + 1
    /\ (state = gameMenu /\ state' = gameActive) =>
           paddle1Score' = 0 /\ paddle2Score' = 0
\* C3: a score reaching maxScore sets the state to Win in that same Update;
\* while the state is Active both scores are below maxScore; Win is entered
\* only from Active, by the single point that reaches the threshold, and a
\* new Active game starts with both scores at 0.
C3_WinOncePerGame ==
    /\ [](state = gameActive => paddle1Score < maxScore /\ paddle2Score < maxScore)
    /\ [][C3_Step]_vars
\* An Update has just ended a game.
C3_Witness ==
    /\ state = gameWin
    /\ pc = "draw"
    /\ paddle1Score = maxScore \/ paddle2Score = maxScore

\* The ball of an Active Update after movement and collision handling.
BallBeforeScoring ==
    DoCollisions(Move(ball, deltaTime, windowWidth, windowHeight), paddle1, paddle2)
C4_Step ==
    /\ (pc = "update" /\ state = gameActive /\ BallBeforeScoring.position[1] <= 0) =>
           /\ paddle2Score' = paddle2Score + 1
           /\ paddle1Score' = paddle1Score
           /\ ball'.position = centre
           /\ ball'.velocity = <<-initialBallVelocity[1], -initialBallVelocity[2]>>
           /\ ball'.velocity[1] < 0
    /\ (/\ pc = "update" /\ state = gameActive
        /\ BallBeforeScoring.position[1] + BallBeforeScoring.size[1] >= Px(windowWidth)) =>
           /\ paddle1Score' = paddle1Score + 1
           /\ paddle2Score' = paddle2Score
           /\ ball'.position = centre
           /\ ball'.velocity = initialBallVelocity
           /\ ball'.velocity[1] > 0
    /\ pc = "update" => paddle1Score' = paddle1Score \/ paddle2Score' = paddle2Score
\* C4: in an Active Update, a ball whose x is <= 0 after movement and
\* collision handling gives the right player exactly one point and is reset
\* to the centre with the initial velocity negated; a ball whose right edge
\* is >= windowWidth gives the left player exactly one point and is reset to
\* the centre with the initial velocity; no Update changes both scores.
C4_ScoreAndServe == [][C4_Step]_vars
\* The right player has just scored and the ball is served to the left.
C4_Witness ==
    /\ pc = "draw"
    /\ paddle2Score > 0
    /\ ball.position = centre
    /\ ball.velocity[1] < 0

C9_Order(cs) ==
    /\ Len(cs) >= 7 + Len(SprintfScore(paddle1Score, paddle2Score))
    /\ cs[1].op = "BeginRender"
    /\ cs[2].op = "SpriteDraw" /\ cs[2].position = paddle1.position
    /\ cs[3].op = "SpriteDraw" /\ cs[3].position = paddle2.position
    /\ cs[4].op = "ParticlesDraw"
    /\ cs[5].op = "SpriteDraw" /\ cs[5].position = ball.position
    /\ cs[6].op = "EndRender"
    /\ cs[7].op = "Render"
    /\ \A i \in 8 .. Len(cs) : cs[i].op = "DrawArrays"
    /\ \A i \in 1 .. Len(SprintfScore(paddle1Score, paddle2Score)) :
           cs[7 + i].texture =
               chars[SprintfScore(paddle1Score, paddle2Score)[i] - lowChar].textureID
\* C9: in every frame and every game state Draw issues BeginRender, paddle1,
\* paddle2, the particles, the ball, EndRender, Render and then the score
\* text, so that one BeginRender/EndRender pair precedes the one Render and
\* every scene draw lies inside the bracket.
C9_DrawOrder == [][pc = "draw" => C9_Order(calls')]_vars
\* The frame of a won game has been drawn.
C9_Witness == pc = "poll" /\ state = gameWin /\ calls # <<>>

----------------------------------------------------------------------------
(* The specifications of single operations.  Each builds the objects the  *)
(* operation works on, as the constructors build them, and calls it.      *)

\* The objects an operation's specification does not touch.
GameFixture ==
    /\ shouldClose = FALSE
    /\ enterUsed = FALSE
    /\ state = gameMenu
    /\ keys = {}
    /\ processedKeys = {}
    /\ paddle1Score = 0
    /\ paddle2Score = 0
    /\ shake = FALSE
    /\ shakeTime = 0
    /\ paddle1 = newGameObject(paddle1Start, paddleSize)
    /\ paddle2 = newGameObject(paddle2Start, paddleSize)
PoolFixture(n) ==
    /\ amount = n
    /\ particles = InitParticles(n)
    /\ lastUsedParticle = 0
    /\ newParticles = 0
    /\ spawnI = 0
    /\ freeAtStart = FALSE
    /\ liveAtSpawn = 0
TextFixture ==
    /\ textIn = <<>>
    /\ scaleIn = 0
    /\ penIn = 0

(* BallObject.Move, called again and again on one ball *)

\* The deltas of the calls, in centiseconds.
MoveDeltas == {7, 42, 250}
Signs == {-1, 1}

InitMove ==
    /\ pc = "move"
    /\ deltaTime = 0
    /\ calls = <<>>
    /\ result = <<>>
    /\ otherBox = newGameObject(<<0, 0>>, <<0, 0>>)
    /\ GameFixture
    /\ PoolFixture(PoolSize)
    /\ TextFixture
    /\ StartedUp("whole")
    /\ chars = LoadFont("whole", 48)
    /\ \E sx \in Signs, sy \in Signs, stuck \in BOOLEAN :
          ball = [newBallObject(centre, ballRadius,
                                <<sx * initialBallVelocity[1],
                                  sy * initialBallVelocity[2]>>)
                  EXCEPT !.isStuck = stuck]

\* b.Move(dt, windowWidth, windowHeight), while the ball is on the screen.
MoveBall(dt) ==
    /\ pc = "move"
    /\ ball.position[1] \in 0 .. Px(windowWidth)
    /\ deltaTime' = dt
    /\ ball' = Move(ball, dt, windowWidth, windowHeight)
    /\ result' = ball'.position
    /\ UNCHANGED <<pc, calls, gameVars, particles, lastUsedParticle, chars,
                   poolVars, otherBox, textIn, scaleIn, penIn>>
    /\ UNCHANGED <<sinceHit, startVars>>

NextMove == \E dt \in MoveDeltas : MoveBall(dt)
SpecMove == InitMove /\ [][NextMove]_vars

(* GameObject.CheckCollision on two boxes *)

\* Box positions run over -1 .. MaxCoord and box sizes over 0 .. MaxSize.
MaxCoord == 2
MaxSize == 2
Boxes ==
    {newGameObject(<<x, y>>, <<w, h>>) :
        x \in -1 .. MaxCoord, y \in -1 .. MaxCoord,
        w \in 0 .. MaxSize, h \in 0 .. MaxSize}

InitCollision ==
    /\ pc = "collide"
    /\ deltaTime = 0
    /\ calls = <<>>
    /\ result = <<>>
    /\ GameFixture
    /\ PoolFixture(PoolSize)
    /\ TextFixture
    /\ StartedUp("whole")
    /\ chars = LoadFont("whole", 48)
    /\ ball \in Boxes
    /\ otherBox \in Boxes

\* a.CheckCollision(b), b.CheckCollision(a) and a.CheckCollision(a).
Collide ==
    /\ pc = "collide"
    /\ pc' = "collided"
    /\ result' = <<CheckCollision(ball, otherBox),
                   CheckCollision(otherBox, ball),
                   CheckCollision(ball, ball)>>
    /\ UNCHANGED <<deltaTime, calls, gameVars, ball, particles,
                   lastUsedParticle, chars, poolVars, otherBox, textIn,
                   scaleIn, penIn>>
    /\ UNCHANGED <<sinceHit, startVars>>

NextCollision == Collide
SpecCollision == InitCollision /\ [][NextCollision]_vars

(* ParticleGenerator.Update, called again and again on one pool *)

\* The deltas of the calls, in centiseconds.
PoolDeltas == {40, 100}
\* Update is called while no particle's life is below -LifeFloor.
LifeFloor == 100

Live(ps) == {i \in DOMAIN ps : ps[i].life > 0}

InitPool ==
    /\ pc = "pool"
    /\ deltaTime = 0
    /\ calls = <<>>
    /\ result = <<>>
    /\ otherBox = newGameObject(<<0, 0>>, <<0, 0>>)
    /\ GameFixture
    /\ TextFixture
    /\ StartedUp("whole")
    /\ chars = LoadFont("whole", 48)
    /\ ball = newBallObject(centre, ballRadius, initialBallVelocity)
    /\ \E n \in 1 .. MaxPool : PoolFixture(n)

\* pg.Update(dt, &ball.GameObject, n, offset) is called.
PoolUpdate(dt, n) ==
    /\ pc = "pool"
    /\ \A i \in DOMAIN particles : particles[i].life >= -LifeFloor
    /\ pc' = "spawning"
    /\ deltaTime' = dt
    /\ newParticles' = n
    /\ spawnI' = 0
    /\ freeAtStart' = (Live(particles) = {})
    /\ UNCHANGED <<calls, gameVars, ball, particles, lastUsedParticle, chars,
                   amount, liveAtSpawn, callVars>>
    /\ UNCHANGED <<sinceHit, startVars>>

\* One iteration of Update's first loop.
PoolSpawn(random, randomColor) ==
    /\ pc = "spawning"
    /\ spawnI < newParticles
    /\ LET pg == SpawnParticle([particles |-> particles,
                                lastUsedParticle |-> lastUsedParticle],
                               ball, <<ball.radius, ball.radius>>,
                               <<random, randomColor>>)
       IN  /\ particles' = pg.particles
           /\ lastUsedParticle' = pg.lastUsedParticle
    /\ spawnI' = spawnI + 1
    /\ liveAtSpawn' = Cardinality(Live(particles))
    /\ UNCHANGED <<pc, deltaTime, calls, gameVars, ball, chars, amount,
                   newParticles, freeAtStart, callVars>>
    /\ UNCHANGED <<sinceHit, startVars>>

\* Update's second loop, after which Update returns.
PoolAge ==
    /\ pc = "spawning"
    /\ spawnI >= newParticles
    /\ pc' = "pool"
    /\ particles' = AgeParticles(particles, deltaTime)
    /\ UNCHANGED <<deltaTime, calls, gameVars, ball, lastUsedParticle, chars,
                   poolVars, callVars>>
    /\ UNCHANGED <<sinceHit, startVars>>

NextPool ==
    \/ \E dt \in PoolDeltas, n \in 0 .. MaxPool : PoolUpdate(dt, n)
    \/ \E draw \in Int31n50 : PoolSpawn(draw[1], draw[2])
    \/ PoolAge
SpecPool == InitPool /\ [][NextPool]_vars

(* TextRenderer.RenderText on one formatted string *)

\* The strings: at most MaxText runes of Alphabet (' ', '1', ':', 'A', DEL).
MaxText == 3
Alphabet == {32, 49, 58, 65, 127}
Strings == UNION {[1 .. n -> Alphabet] : n \in 0 .. MaxText}
Scales == {1000, 500}

InitText ==
    /\ pc = "text"
    /\ deltaTime = 0
    /\ calls = <<>>
    /\ result = <<>>
    /\ otherBox = newGameObject(<<0, 0>>, <<0, 0>>)
    /\ GameFixture
    /\ PoolFixture(PoolSize)
    /\ ball = newBallObject(centre, ballRadius, initialBallVelocity)
    /\ \E font \in Fonts : chars = LoadFont(font, 48) /\ StartedUp(font)
    /\ textIn \in Strings
    /\ scaleIn \in Scales
    /\ penIn \in {0, Px(290)}

\* t.RenderText(penIn, 50, scaleIn, color, textIn)
CallRenderText ==
    /\ pc = "text"
    /\ pc' = "rendered"
    /\ calls' = RenderText(chars, penIn, Px(50), scaleIn, textIn)
    /\ UNCHANGED <<deltaTime, gameVars, ball, particles, lastUsedParticle,
                   chars, poolVars, callVars>>
    /\ UNCHANGED <<sinceHit, startVars>>

NextText == CallRenderText
SpecText == InitText /\ [][NextText]_vars

(* The Active branch of Game.ProcessInput, with any directional keys held *)

\* The frame deltas of the calls, in centiseconds.
PaddleDeltas == {10, 50}
DirectionKeys == {KeyW, KeyS, KeyUp, KeyDown}

InitPaddle ==
    /\ pc = "input"
    /\ deltaTime = 0
    /\ calls = <<>>
    /\ result = <<>>
    /\ otherBox = newGameObject(<<0, 0>>, <<0, 0>>)
    /\ shouldClose = FALSE
    /\ enterUsed = FALSE
    /\ state = gameActive
    /\ keys = {}
    /\ processedKeys = {KeyEnter}
    /\ paddle1Score = 0
    /\ paddle2Score = 0
    /\ shake = FALSE
    /\ shakeTime = 0
    /\ paddle1 = newGameObject(paddle1Start, paddleSize)
    /\ paddle2 = newGameObject(paddle2Start, paddleSize)
    /\ ball = newBallObject(centre, ballRadius, initialBallVelocity)
    /\ PoolFixture(PoolSize)
    /\ TextFixture
    /\ StartedUp("whole")
    /\ chars = LoadFont("whole", 48)

\* g.ProcessInput(dt) in an Active game with the keys `held` down.
PaddleInput(held, dt) ==
    /\ pc = "input"
    /\ state = gameActive
    /\ keys' = held
    /\ deltaTime' = dt
    /\ paddle1' = MovePaddle(paddle1, KeyW \in held, KeyS \in held,
                             Displacement(paddleVelocity, dt))
    /\ paddle2' = MovePaddle(paddle2, KeyUp \in held, KeyDown \in held,
                             Displacement(paddleVelocity, dt))
    /\ UNCHANGED <<pc, calls, shouldClose, state, processedKeys, enterUsed,
                   ball, paddle1Score, paddle2Score, shakeTime, shake,
                   particles, lastUsedParticle, chars, poolVars, callVars,
                   sinceHit, startVars>>

NextPaddle == \E held \in SUBSET DirectionKeys, dt \in PaddleDeltas : PaddleInput(held, dt)
SpecPaddle == InitPaddle /\ [][NextPaddle]_vars

(* The startup of main: newGame and Game.Init, step by step *)

\* How loading one shader program ends: both files read, both stages
\* compiled and the program linked; a file that cannot be read; a vertex or
\* a fragment stage that does not compile; a program that does not link.
ShaderOutcomes == {"ok", "unreadable", "vertex", "fragment", "link"}
\* What the font file holds: one of the fonts, or data that is no font.
FontContents == Fonts \cup {"corrupt"}
\* What ioutil.ReadAll returns for an open file: <<data, err # nil>>.
ReadOutcomes == {<<"whole", FALSE>>, <<"whole", TRUE>>, <<"partial", TRUE>>}

\* After newGame, before Game.Init: no renderer and no game object yet.
InitStartup ==
    /\ pc = "shaders"
    /\ deltaTime = 0
    /\ shouldClose = FALSE
    /\ enterUsed = FALSE
    /\ calls = <<>>
    /\ state = gameMenu
    /\ keys = {}
    /\ processedKeys = {}
    /\ paddle1Score = 0
    /\ paddle2Score = 0
    /\ paddle1 = "nil"
    /\ paddle2 = "nil"
    /\ ball = "nil"
    /\ shake = FALSE
    /\ shakeTime = 0
    /\ sinceHit = Tenths(1)
    /\ amount = 0
    /\ particles = <<>>
    /\ lastUsedParticle = 0
    /\ newParticles = 0
    /\ spawnI = 0
    /\ freeAtStart = FALSE
    /\ liveAtSpawn = 0
    /\ otherBox = newGameObject(<<0, 0>>, <<0, 0>>)
    /\ TextFixture
    /\ result = <<>>
    /\ chars = <<>>
    /\ shaders = <<>>
    /\ fontFile \in [content : FontContents]
    /\ fontData = "none"
    /\ ttf = "nil"
    /\ errors = <<>>

gameObjects == <<paddle1, paddle2, ball>>
untouchedAtStartup ==
    <<deltaTime, shouldClose, enterUsed, calls, state, keys, processedKeys,
      paddle1Score, paddle2Score, shake, shakeTime, sinceHit,
      lastUsedParticle, newParticles, spawnI, freeAtStart, liveAtSpawn,
      otherBox, textIn, scaleIn, penIn, fontFile>>

\* The next g.resourceManager.LoadShader(...) of Game.Init.  readShaderFile
\* ends the process with log.Fatal; Compile panics when a stage does not
\* compile and does not look at the result of LinkProgram.
LoadShader(outcome) ==
    /\ pc = "shaders"
    /\ result' = <<outcome>>
    /\ LET name == ShaderNames[Cardinality(DOMAIN shaders) + 1]
           stored == [n \in DOMAIN shaders \cup {name} |->
                         IF n = name
                         THEN [compiled |-> TRUE, linked |-> outcome # "link"]
                         ELSE shaders[n]]
       IN  CASE outcome = "unreadable" ->
                    pc' = "exited" /\ UNCHANGED shaders
             [] outcome \in {"vertex", "fragment"} ->
                    pc' = "panicked" /\ UNCHANGED shaders
             [] OTHER ->
                    /\ shaders' = stored
                    /\ pc' = IF Cardinality(DOMAIN stored) = Len(ShaderNames)
                             THEN "renderers" ELSE "shaders"
    /\ UNCHANGED <<untouchedAtStartup, gameObjects, amount, particles, chars,
                   fontData, ttf, errors>>

\* The renderers Game.Init builds, the particle pool among them.
NewRenderers ==
    /\ pc = "renderers"
    /\ pc' = "font"
    /\ amount' = PoolSize
    /\ particles' = InitParticles(PoolSize)
    /\ UNCHANGED <<untouchedAtStartup, gameObjects, chars, result, shaders,
                   fontData, ttf, errors>>

\* LoadFont: os.Open and ioutil.ReadAll.  Each failure is printed and
\* LoadFont goes on; ReadAll on the nil file of a failed Open fails.
ReadFontFile(opened, read) ==
    /\ pc = "font"
    /\ pc' = "parse"
    /\ fontData' = IF opened THEN read[1] ELSE "none"
    /\ errors' = errors \o (IF opened THEN <<>> ELSE <<"open">>)
                        \o (IF opened /\ ~read[2] THEN <<>> ELSE <<"read">>)
    /\ result' = <<opened, read>>
    /\ UNCHANGED <<untouchedAtStartup, gameObjects, amount, particles, chars,
                   shaders, ttf>>

\* LoadFont: truetype.Parse(data).  A failure is printed and LoadFont goes
\* on with a nil font.
ParseFont ==
    /\ pc = "parse"
    /\ pc' = "glyphs"
    /\ LET parsed == fontData = "whole" /\ fontFile.content \in Fonts
       IN  /\ ttf' = IF parsed THEN fontFile.content ELSE "nil"
           /\ errors' = IF parsed THEN errors ELSE Append(errors, "parse")
    /\ UNCHANGED <<untouchedAtStartup, gameObjects, amount, particles, chars,
                   result, shaders, fontData>>

\* LoadFont: one iteration of the glyph loop.  Measuring a glyph of the nil
\* font dereferences it and panics.
MakeGlyphStep ==
    /\ pc = "glyphs"
    /\ LET n == Cardinality(DOMAIN chars)
       IN  IF ttf = "nil"
           THEN pc' = "panicked" /\ UNCHANGED chars
           ELSE /\ chars' = [i \in 0 .. n |->
                                IF i < n THEN chars[i]
                                ELSE MakeGlyph(ttf, 48, lowChar + n)]
                /\ pc' = IF lowChar + n = highChar THEN "objects" ELSE "glyphs"
    /\ UNCHANGED <<untouchedAtStartup, gameObjects, amount, particles,
                   result, shaders, fontData, ttf, errors>>

\* The game objects Game.Init builds; main then enters the frame loop.
ConfigureObjects ==
    /\ pc = "objects"
    /\ pc' = "poll"
    /\ paddle1' = newGameObject(paddle1Start, paddleSize)
    /\ paddle2' = newGameObject(paddle2Start, paddleSize)
    /\ ball' = newBallObject(ballStart, ballRadius, initialBallVelocity)
    /\ UNCHANGED <<untouchedAtStartup, amount, particles, chars, result,
                   startVars>>

NextStartup ==
    \/ \E outcome \in ShaderOutcomes : LoadShader(outcome)
    \/ NewRenderers
    \/ \E opened \in BOOLEAN, read \in ReadOutcomes : ReadFontFile(opened, read)
    \/ ParseFont
    \/ MakeGlyphStep
    \/ ConfigureObjects
SpecStartup == InitStartup /\ [][NextStartup]_vars

----------------------------------------------------------------------------
(* Claims about single operations *)

\* The ball's y after the integration step of the Move that just ran.
IntegratedY == ball.position[2] + Displacement(ball.velocity[2], deltaTime')
C5_Step ==
    (pc = "move" /\ ~ball.isStuck) =>
        /\ (IntegratedY <= 0 /\ ball.velocity[2] < 0) =>
               /\ ball'.velocity[2] = -ball.velocity[2]
               /\ ball'.position[2] = 0
        /\ (IntegratedY + ball.size[2] >= Px(windowHeight) /\ ball.velocity[2] > 0) =>
               /\ ball'.velocity[2] = -ball.velocity[2]
               /\ ball'.position[2] = Px(windowHeight) - ball.size[2]
        /\ ball'.position[2] >= 0
        /\ ball'.position[2] <= Px(windowHeight) - ball'.size[2]
        /\ ball'.position[2] = 0 => ball'.velocity[2] > 0
        /\ ball'.position[2] = Px(windowHeight) - ball'.size[2] =>
               ball'.velocity[2] < 0
\* C5: Move on a ball that is not stuck: a ball integrated to y <= 0 while
\* moving up is set to y = 0 with its vertical velocity flipped; a ball
\* integrated to y + size.y >= windowHeight while moving down is set to
\* windowHeight - size.y with its vertical velocity flipped; after every
\* Move y lies in [0, windowHeight - size.y] and a ball at a wall moves back
\* into the field.
C5_WallReflection == [][C5_Step]_vars
\* A Move has just reflected the ball at the top wall.
C5_Witness ==
    /\ pc = "move"
    /\ deltaTime > 0
    /\ ~ball.isStuck
    /\ ball.position[2] = 0
    /\ ball.velocity[2] = initialBallVelocity[2]

SeparatedX(a, b) ==
    \/ a.position[1] + a.size[1] < b.position[1]
    \/ b.position[1] + b.size[1] < a.position[1]
SeparatedY(a, b) ==
    \/ a.position[2] + a.size[2] < b.position[2]
    \/ b.position[2] + b.size[2] < a.position[2]
\* C6: for boxes A and B with non-negative sizes, CheckCollision(A, B) =
\* CheckCollision(B, A), CheckCollision(A, A) is true, and
\* CheckCollision(A, B) is false when the boxes are separated on the x axis
\* or on the y axis.
C6_CollisionTest ==
    pc = "collided" =>
        /\ result[1] = result[2]
        /\ result[3]
        /\ (SeparatedX(ball, otherBox) \/ SeparatedY(ball, otherBox)) => ~result[1]
\* Two boxes that overlap on x and are separated on y were tested.
C6_Witness ==
    /\ pc = "collided"
    /\ ~SeparatedX(ball, otherBox)
    /\ SeparatedY(ball, otherBox)
    /\ result = <<FALSE, FALSE, TRUE>>

Respawned == {i \in DOMAIN particles : particles[i].life = Sec(1)}
\* C7: in an Update that found all M particles free and spawns N < M, the
\* spawns so far landed in distinct slots: as many slots as spawns have
\* life = 1.0 and every other slot still has life <= 0, whatever the
\* cursor was.
C7_DistinctSlots ==
    (pc = "spawning" /\ freeAtStart /\ newParticles < amount) =>
        /\ Cardinality(Respawned) = spawnI
        /\ \A i \in DOMAIN particles \ Respawned : particles[i].life <= 0
\* Two spawns into a free pool of three, started with the cursor on the last
\* slot, have wrapped around to slot 0.
C7_Witness ==
    /\ pc = "spawning"
    /\ freeAtStart
    /\ amount = 3
    /\ newParticles = 2
    /\ spawnI = 2
    /\ Respawned = {0, 2}
    /\ lastUsedParticle = 0

Free == {i \in DOMAIN particles : particles[i].life <= 0}
C8_Step ==
    (pc = "spawning" /\ spawnI' = spawnI + 1) =>
        /\ particles'[lastUsedParticle'].life = Sec(1)
        /\ \A i \in DOMAIN particles \ {lastUsedParticle'} :
               particles'[i] = particles[i]
        /\ Free # {} => lastUsedParticle' \in Free
        /\ Free = {} => lastUsedParticle' = 0
\* C8: over any sequence of Update calls the pool keeps its M slots and the
\* cursor stays in [0, M); every spawn respawns the slot firstUnusedParticle
\* returned, which is a free slot when one exists and slot 0, with the
\* cursor set to 0, when all M slots are live.
C8_SpawnNeverFails ==
    /\ [](DOMAIN particles = 0 .. amount - 1 /\ lastUsedParticle \in 0 .. amount - 1)
    /\ [][C8_Step]_vars
\* A spawn found every slot of a pool of several particles live and took
\* slot 0, leaving the cursor there.
C8_Witness ==
    /\ pc = "spawning"
    /\ amount > 1
    /\ spawnI > amount
    /\ liveAtSpawn = amount
    /\ lastUsedParticle = 0

\* The pen position before the i-th draw of the RenderText call.
PenBefore(i) == IF i = 1 THEN penIn ELSE calls[i - 1].pen
C10_Quads ==
    /\ Len(calls) = Len(textIn)
    /\ \A i \in 1 .. Len(calls) :
           /\ calls[i].op = "DrawArrays"
           /\ calls[i].texture = chars[textIn[i] - lowChar].textureID
\* C10 as stated: RenderText issues one quad draw per character, in string
\* order, and none for the empty string, and each glyph advances the pen by
\* its recorded advance (1/64 pixels; the pen is in 1/1000 pixels).
C10_AdvanceIsRecorded ==
    pc = "rendered" =>
        /\ C10_Quads
        /\ \A i \in 1 .. Len(calls) :
               (calls[i].pen - PenBefore(i)) * 64
                   = chars[textIn[i] - lowChar].advance * 1000
\* C10, amended: RenderText issues one quad draw per character, in string
\* order, and none for the empty string, and each glyph advances the pen by
\* the whole pixels of its recorded advance (advance >> 6) times the scale.
C10_AdvanceIsScaledPixels ==
    pc = "rendered" =>
        /\ C10_Quads
        /\ \A i \in 1 .. Len(calls) :
               calls[i].pen - PenBefore(i)
                   = Shr6(chars[textIn[i] - lowChar].advance) * scaleIn
\* A string with a space in it was rendered at half scale.
C10_Witness ==
    /\ pc = "rendered"
    /\ scaleIn = 500
    /\ Len(textIn) = MaxText
    /\ \E i \in 1 .. Len(textIn) : textIn[i] = 32
    /\ Len(calls) = MaxText

----------------------------------------------------------------------------
(* Claims about the shake, the paddles and the frozen states *)

\* C11: a collision turns the shake on and the shake is off again once the
\* frame deltas since the collision sum to 0.1 s, whatever the game state
\* has become in the meantime.
C11_ShakeEnds == sinceHit >= Tenths(1) => ~shake

\* C20: at the end of an Active Update that leaves the ball overlapping a
\* paddle, the ball's horizontal velocity points away from that paddle:
\* to the right at the left paddle and to the left at the right one.
C20_AwayFromPaddle ==
    (pc = "draw" /\ state = gameActive) =>
        /\ CheckCollision(ball, paddle1) => ball.velocity[1] > 0
        /\ CheckCollision(ball, paddle2) => ball.velocity[1] < 0

\* The largest displacement of a paddle in one frame.
LargestStep ==
    Displacement(paddleVelocity, CHOOSE dt \in PaddleDeltas : \A e \in PaddleDeltas : e <= dt)
LowerBound(paddle) == Px(windowHeight) - paddle.size[2]
C12_Moved(before, after, up, down) ==
    LET y == before.position[2]
        z == after.position[2]
        d == Displacement(paddleVelocity, deltaTime')
    IN  /\ after.position[1] = before.position[1]
        /\ z - y \in {-d, 0, d}
        /\ z < y => up /\ y >= 0
        /\ z > y => down /\ y <= LowerBound(before)
        /\ (up /\ ~down /\ y >= 0) => z = y - d
        /\ (down /\ ~up /\ y <= LowerBound(before)) => z = y + d
        /\ y < 0 => z >= y
        /\ y > LowerBound(before) => z <= y
C12_InBounds(paddle) ==
    /\ paddle.position[2] >= -LargestStep
    /\ paddle.position[2] <= LowerBound(paddle) + LargestStep
\* C12: while Active, a directional key moves its paddle by paddleVelocity x
\* deltaTime, and only if the paddle's y before the move is within the
\* bound of that direction (y >= 0 for up, y <= windowHeight - paddleHeight
\* for down); each paddle's y stays within one largest frame displacement of
\* the bounds, and a paddle past a bound is not moved further past it.
C12_PaddleBounds ==
    /\ [](C12_InBounds(paddle1) /\ C12_InBounds(paddle2))
    /\ [][/\ C12_Moved(paddle1, paddle1', KeyW \in keys', KeyS \in keys')
          /\ C12_Moved(paddle2, paddle2', KeyUp \in keys', KeyDown \in keys')]_vars
\* The left paddle has been moved past the top bound and the right paddle
\* past the bottom bound.
C12_Witness ==
    /\ pc = "input"
    /\ paddle1.position[2] < 0
    /\ paddle2.position[2] > LowerBound(paddle2)

Simulation == <<ball, paddle1, paddle2, paddle1Score, paddle2Score, particles,
                shakeTime, shake>>
C13_Step ==
    /\ (/\ pc = "poll" /\ pc' = "update"
        /\ state \in {gameMenu, gameWin}
        /\ KeyEnter \notin keys) => UNCHANGED <<Simulation, state>>
    /\ (pc = "update" /\ state \in {gameMenu, gameWin}) =>
           UNCHANGED <<Simulation, state>>
\* C13: in a frame whose state is Menu or Win, ProcessInput with directional
\* keys held and Update leave the ball, both paddles, both scores, every
\* particle, the shake timer and the shake flag unchanged.
C13_FrozenOutsideActive == [][C13_Step]_vars
\* A frame has passed in the menu after a game, with a directional key held
\* and a particle of the game still alive.
C13_Witness ==
    /\ pc = "draw"
    /\ state = gameMenu
    /\ keys = {KeyW}
    /\ paddle1Score = maxScore \/ paddle2Score = maxScore
    /\ \E i \in DOMAIN particles : particles[i].life > 0

\* C14: when the font file cannot be opened or read or its data cannot be
\* parsed, LoadFont reports the error and loads nothing after it: the
\* renderer holds no glyph record.
C14_FontFailureAborts == errors # <<>> => chars = <<>>

\* C15: a program whose vertex or fragment stage does not compile or whose
\* link fails stops the startup: past the shader loading every registered
\* program is compiled and linked.
C15_ShaderFailureStops ==
    pc \notin {"shaders", "exited", "panicked"} =>
        \A n \in DOMAIN shaders : shaders[n].compiled /\ shaders[n].linked

Exhausted == pc = "spawning" /\ spawnI' = spawnI + 1 /\ Free = {}
\* C16 as stated: the slot a spawn overwrites in an exhausted pool holds the
\* oldest particle, one of minimal remaining life among all slots.
C16_OverwritesOldest ==
    [][Exhausted =>
          \A i \in DOMAIN particles :
              particles[lastUsedParticle'].life <= particles[i].life]_vars
\* C16, amended: the slot a spawn overwrites in an exhausted pool is slot 0,
\* whatever its remaining life; it becomes the newest particle, the cursor
\* goes to 0 and every other slot keeps its particle.
C16_OverwritesFirst ==
    [][Exhausted =>
          /\ lastUsedParticle' = 0
          /\ particles'[0].life = Sec(1)
          /\ \A i \in DOMAIN particles \ {0} : particles'[i] = particles[i]]_vars
\* A spawn has overwritten slot 0 of an exhausted pool and the next spawn of
\* the same Update will overwrite it again, though every other slot is older.
C16_Witness ==
    /\ pc = "spawning"
    /\ amount > 1
    /\ liveAtSpawn = amount
    /\ spawnI >= 1
    /\ spawnI < newParticles
    /\ lastUsedParticle = 0
    /\ Free = {}
    /\ \A i \in DOMAIN particles \ {0} : particles[i].life < particles[0].life

\* C17: Reset runs on every Menu->Active transition and restores what Init
\* established: both scores are 0 and both paddles' positions and the
\* ball's position and velocity are those Init gave them.
C17_ResetRestoresInit ==
    [][(state = gameMenu /\ state' = gameActive) =>
          /\ paddle1Score' = 0
          /\ paddle2Score' = 0
          /\ paddle1'.position = paddle1Start
          /\ paddle2'.position = paddle2Start
          /\ ball'.position = ballStart
          /\ ball'.velocity = initialBallVelocity]_vars

\* The particle p with its life, position and alpha updated for dt.
Aged(p, dt) ==
    [p EXCEPT !.life = p.life - dt,
              !.position = <<p.position[1] - Displacement(p.velocity[1], dt),
                             p.position[2] - Displacement(p.velocity[2], dt)>>,
              !.color = <<p.color[1], p.color[2], p.color[3],
                          p.color[4] - 25 * dt>>]
AgeStep == pc = "spawning" /\ pc' = "pool"
\* C18 as stated: Update's second loop updates life, position and alpha of
\* every particle whose life is > 0, all three together, and leaves a
\* particle whose life is <= 0 before the step entirely unchanged.
C18_LiveAgedDeadUntouched ==
    [][AgeStep =>
          \A i \in DOMAIN particles :
              particles'[i] = IF particles[i].life > 0
                              THEN Aged(particles[i], deltaTime)
                              ELSE particles[i]]_vars
\* C18, amended: Update's second loop decreases the life of every particle
\* by deltaTime, dead ones included; position and alpha are updated
\* together, and only for a particle whose life is still > 0 after the
\* decrease; nothing else changes.
C18_AllAgeLiveMove ==
    [][AgeStep =>
          \A i \in DOMAIN particles :
              particles'[i] = IF particles[i].life - deltaTime > 0
                              THEN Aged(particles[i], deltaTime)
                              ELSE [particles[i] EXCEPT
                                       !.life = particles[i].life - deltaTime]]_vars
\* An Update has aged a pool in which one particle lives on and has moved
\* and faded, one died in this step where it was, and one was never
\* spawned and lost life in each of three Updates all the same.
C18_Witness ==
    /\ pc = "pool"
    /\ deltaTime = 40
    /\ \E i, j, k \in DOMAIN particles :
          /\ particles[i].life = Sec(1) - 40
             /\ particles[i].color[4] = 1000 - 25 * 40
          /\ particles[j].life = Sec(1) - 40 - 40 - 40
             /\ particles[j].color[4] = 1000 - 25 * 40 - 25 * 40
          /\ particles[k].life = 0 - 40 - 40 - 40
             /\ particles[k].color[4] = 1000

\* The textures of the glyphs of `text`, and those of the last n draws.
Textures(text) == [i \in 1 .. Len(text) |-> text[i] - lowChar + 1]
LastDrawn(cs, n) == [i \in 1 .. n |-> cs[Len(cs) - n + i].texture]
C19_Scores ==
    /\ paddle1Score \in 0 .. maxScore
    /\ paddle2Score \in 0 .. maxScore
    /\ ~(paddle1Score = maxScore /\ paddle2Score = maxScore)
    /\ state = gameWin => (paddle1Score = maxScore \/ paddle2Score = maxScore)
C19_Text ==
    (pc = "draw" /\ state = gameWin) =>
        /\ Len(calls') >= Len(player1Won)
        /\ LastDrawn(calls', Len(player1Won)) = Textures(player1Won)
               <=> paddle1Score = maxScore
        /\ LastDrawn(calls', Len(player2Won)) = Textures(player2Won)
               <=> paddle2Score = maxScore
\* C19: both scores lie in 0..maxScore and at most one equals maxScore; in
\* Win exactly one does, and the last text Draw renders in Win is
\* "Player 1 Won!" iff paddle1Score = maxScore and "Player 2 Won!" iff
\* paddle2Score = maxScore.
C19_ScoresAndWinner == []C19_Scores /\ [][C19_Text]_vars
\* The frame of a game player 2 has won has been drawn, ending with
\* "Player 2 Won!".
C19_Witness ==
    /\ pc = "poll"
    /\ state = gameWin
    /\ paddle2Score = maxScore
    /\ Len(calls) >= Len(player2Won)
    /\ LastDrawn(calls, Len(player2Won)) = Textures(player2Won)

RECURSIVE Concat(_)
Concat(texts) == IF texts = <<>> THEN <<>> ELSE Head(texts) \o Concat(Tail(texts))
\* The textures of the glyph draws that follow the seven scene calls.
TextDraws(cs) == [i \in 1 .. Len(cs) - 7 |-> cs[7 + i].texture]
\* C21: with all 96 glyphs loaded, every string Draw passes to RenderText in
\* any reachable state (the score, the start prompt, the result text) has
\* only code points in 32..127, so every glyph lookup is inside the list;
\* and the glyphs Draw renders are exactly those of these strings.
C21_TextsInGlyphRange ==
    DOMAIN chars = 0 .. highChar - lowChar =>
        /\ \A k \in 1 .. Len(DrawTexts) : \A i \in 1 .. Len(DrawTexts[k]) :
               /\ DrawTexts[k][i] \in lowChar .. highChar
               /\ DrawTexts[k][i] - lowChar \in DOMAIN chars
        /\ pc = "draw" => TextDraws(DrawCalls) = Textures(Concat(DrawTexts))
\* The frame of a game player 1 has won 10 to something has been drawn: the
\* two-digit score, the start prompt and the result text.
C21_Witness ==
    /\ pc = "poll"
    /\ state = gameWin
    /\ paddle1Score = maxScore
    /\ Len(DrawTexts) = 3
    /\ Len(calls) = 7 + Len(Concat(DrawTexts))
    /\ TextDraws(calls) = Textures(Concat(DrawTexts))

====
